---- MODULE Spec2Model ----
(***************************************************************************)
(* Model of the polling file watcher of src/fwatch/fwatch.py:              *)
(* WatcherConfig, FileInfo, ChangeHandler and FileWatcher.start.           *)
(*                                                                         *)
(* Time is counted in milliseconds-ticks.  rt is the elapsed real time,    *)
(* Now is the reading of time.time() (the wall clock), which the           *)
(* environment may step.  The filesystem is a map from the modelled paths  *)
(* to what os.walk/os.stat would observe for them.                         *)
(***************************************************************************)
EXTENDS Integers, Sequences, FiniteSets, TLC

\* ------------------------------------------------------------- bounds
MaxTime == 2       \* real time horizon, in ticks
MaxSkew == 1       \* how far the environment steps the wall clock off real time

\* --------------------------------------------------- modelled universe
Dirs == {"d1", "d2"}
Paths == {"p1", "p2"}
Cwd == "d1"

\* p1 = x/a.p   p2 = y/b.p   (character sequences)
PathStr(p) ==
  IF p = "p1" THEN <<"x", "/", "a", ".", "p">>
              ELSE <<"y", "/", "b", ".", "p">>

DirOf(p) == IF p = "p1" THEN "d1" ELSE "d2"

\* (mtime, size) pairs a file may have
Stats == {<<100, 10>>, <<150, 10>>, <<100, 20>>}

FileEntry(st) == [kind |-> "file", mtime |-> st[1], size |-> st[2]]

AbsentEntry == [kind |-> "absent", mtime |-> 0, size |-> 0]
DanglingEntry == [kind |-> "dangling", mtime |-> 0, size |-> 0]
FileEntries == {FileEntry(st) : st \in Stats}
FsEntries == {AbsentEntry, DanglingEntry} \cup FileEntries

\* what the environment makes of each path: p1 takes every form, p2 only
\* comes and goes
EntriesOf(p) ==
  IF p = "p1" THEN FsEntries ELSE {AbsentEntry, FileEntry(<<100, 10>>)}

\* ------------------------------------------------------- configuration
NoPatterns == << >>
ExtP == <<".", "p">>
SubB == <<"b">>

PatternChoices ==
  { [watch_patterns |-> NoPatterns, exclude_patterns |-> NoPatterns],
    [watch_patterns |-> <<ExtP>>, exclude_patterns |-> <<SubB>>] }

\* nothing configured; the generic command alone; every command; per-event
\* commands for create and delete alone
CommandChoices ==
  { [command |-> "", on_create |-> "", on_modify |-> "", on_delete |-> ""],
    [command |-> "gen", on_create |-> "", on_modify |-> "", on_delete |-> ""],
    [command |-> "gen", on_create |-> "oc", on_modify |-> "om", on_delete |-> "od"],
    [command |-> "", on_create |-> "oc", on_modify |-> "", on_delete |-> "od"] }

\* log_file: None by default, else the file log() appends to
NoLogFile == ""
LogFiles == {NoLogFile, "w.log"}

WatcherConfig ==
  [ watch_dirs : { << >>, <<"d1", "d2">> },
    patterns : PatternChoices,
    commands : CommandChoices,
    on_move : {"mv"},
    debounce_ms : {0, 1},
    poll_interval : {1},
    oneshot : BOOLEAN,
    initial_run : BOOLEAN,
    log_file : LogFiles ]

VARIABLES
  config,            \* the WatcherConfig of this run
  dirExists,         \* directories for which os.path.exists holds at startup
  fs,                \* the filesystem: path -> entry
  rt,                \* elapsed real time
  skew,              \* wall clock minus real time, changed by clock steps
  pc,                \* position of start()
  watch_paths,       \* start(): the valid roots
  file_states,       \* handler.file_states: path -> FileInfo
  current_states,    \* start(): the candidate set of the cycle
  todo,              \* paths of all_paths not yet iterated
  handled,           \* handle_change calls of the current cycle
  last_change,       \* handler.last_change
  stop_flag,         \* handler.stop_flag
  handlerInstalled,  \* signal.signal(SIGINT, signal_handler) was executed
  scans,             \* directory scan passes performed (seed and cycles)
  cycles,            \* iterations of the main loop entered
  initialRuns,       \* initial-run commands started
  lastStart,         \* {real start time of the latest dispatched command}
  result,            \* how the command that has just ended ended, else "none"
  interrupted,       \* SIGINT was delivered
  orphaned,          \* processes of a timed-out command are still executing
  cfgFile,           \* the configuration file: key -> JSON value
  loaded,            \* the WatcherConfig that load_config or main has built
  logOut,            \* what the log() call of the latest handler step wrote
  exitCode           \* {} while the process runs, {status} once it has ended

vars == << config, dirExists, fs, rt, skew, pc, watch_paths,
           file_states, current_states, todo, handled, last_change, stop_flag,
           handlerInstalled, scans, cycles, initialRuns, lastStart,
           result, interrupted, orphaned, cfgFile, loaded, logOut,
           exitCode >>

WallEpoch == 10    \* wall clock reading when the run begins

\* time.time(), in ticks
Now == WallEpoch + rt + skew

\* ------------------------------------------------------------ FileInfo
\* a FileInfo whose failed stat leaves the time of the attempt in mtime
FileInfoStampsFailure(f, p) ==
  IF f[p].kind = "file"
    THEN [mtime |-> f[p].mtime, size |-> f[p].size, exists |-> TRUE]
    ELSE [mtime |-> Now, size |-> 0, exists |-> FALSE]

\* FileInfo(path): __init__ followed by update(), an os.stat of the path now
\* on the filesystem f
FileInfo(f, p) ==
  IF f[p].kind = "file"
    THEN [mtime |-> f[p].mtime, size |-> f[p].size, exists |-> TRUE]
    ELSE [mtime |-> 0, size |-> 0, exists |-> FALSE]

\* changed() with "and" between the two metadata tests
ChangedBothDiffer(self, other) ==
  \/ self.exists # other.exists
  \/ (self.mtime # other.mtime /\ self.size # other.size)

\* changed() comparing the two objects themselves: FileInfo defines no
\* equality, so two snapshots always differ
ChangedByIdentity(self, other) == TRUE

\* changed() without the mtime test
ChangedSizeOnly(self, other) ==
  \/ self.exists # other.exists
  \/ self.size # other.size

\* FileInfo.changed
Changed(self, other) ==
  \/ self.exists # other.exists
  \/ self.mtime # other.mtime
  \/ self.size # other.size

\* ------------------------------------------------------- should_process
IsSubstring(pat, s) ==
  \E i \in 0..(Len(s) - Len(pat)) : SubSeq(s, i + 1, i + Len(pat)) = pat

\* the final path component (pathlib's name)
RECURSIVE LastSlash(_, _)
LastSlash(s, i) ==
  IF i = 0 THEN 0 ELSE IF s[i] = "/" THEN i ELSE LastSlash(s, i - 1)

PathName(s) == SubSeq(s, LastSlash(s, Len(s)) + 1, Len(s))

RECURSIVE LastDot(_, _)
LastDot(s, i) ==
  IF i = 0 THEN 0 ELSE IF s[i] = "." THEN i ELSE LastDot(s, i - 1)

\* pathlib's PurePath.suffix
PathSuffix(s) ==
  LET name == PathName(s)
      i == LastDot(name, Len(name))
  IN  IF 1 < i /\ i < Len(name) THEN SubSeq(name, i, Len(name)) ELSE << >>

StartsWithDot(pat) == Len(pat) > 0 /\ pat[1] = "."

\* should_process returning True as soon as an include pattern matches
ShouldProcessIncludeWins(path) ==
  LET wp == config.patterns.watch_patterns
      xp == config.patterns.exclude_patterns
      s == PathStr(path)
      match == \E k \in 1..Len(wp) :
                 \/ StartsWithDot(wp[k]) /\ PathSuffix(s) = wp[k]
                 \/ IsSubstring(wp[k], s)
  IN  IF Len(wp) > 0 THEN match
      ELSE ~(\E k \in 1..Len(xp) : IsSubstring(xp[k], s))

\* should_process asking every include pattern to match
ShouldProcessAllIncludes(path) ==
  LET wp == config.patterns.watch_patterns
      xp == config.patterns.exclude_patterns
      s == PathStr(path)
      match == \A k \in 1..Len(wp) :
                 \/ StartsWithDot(wp[k]) /\ PathSuffix(s) = wp[k]
                 \/ IsSubstring(wp[k], s)
  IN  /\ (Len(wp) > 0 => match)
      /\ ~(\E k \in 1..Len(xp) : IsSubstring(xp[k], s))

ShouldProcess(path) ==
  LET wp == config.patterns.watch_patterns
      xp == config.patterns.exclude_patterns
      s == PathStr(path)
      match == \E k \in 1..Len(wp) :
                 \/ StartsWithDot(wp[k]) /\ PathSuffix(s) = wp[k]
                 \/ IsSubstring(wp[k], s)
  IN  /\ (Len(wp) > 0 => match)
      /\ ~(\E k \in 1..Len(xp) : IsSubstring(xp[k], s))

\* --------------------------------------------------------- _should_run
Elapsed == Now - last_change

ShouldRun == Elapsed >= config.debounce_ms

\* ----------------------------------------------------------------- log
\* no log() call was made
NoLog == [line |-> "none", console |-> FALSE, history |-> FALSE,
          file |-> FALSE, stderr |-> FALSE]

\* how the append to the log file can go: not attempted without a log file
SinkResults == IF config.log_file = NoLogFile THEN {TRUE} ELSE BOOLEAN

\* log() writing the file first, the exception of a failed append ending it
LogCallFileFirst(message, written) ==
  [line |-> message,
   console |-> config.log_file = NoLogFile \/ written,
   history |-> config.log_file = NoLogFile \/ written,
   file |-> config.log_file # NoLogFile /\ written,
   stderr |-> config.log_file # NoLogFile /\ ~written]

\* ChangeHandler.log with FileWatcher._log_to_file as its callback: print,
\* append to the history, then the append to the log file inside try/except
LogCall(message, written) ==
  [line |-> message,
   console |-> TRUE,
   history |-> TRUE,
   file |-> config.log_file # NoLogFile /\ written,
   stderr |-> config.log_file # NoLogFile /\ ~written]

\* ------------------------------------------------------- handle_change
\* handle_change without its delete branch
EventTypeNoDelete(old_info, new_info) ==
  IF ~old_info.exists /\ new_info.exists THEN "create" ELSE "modify"

EventType(old_info, new_info) ==
  IF old_info.exists /\ ~new_info.exists THEN "delete"
  ELSE IF ~old_info.exists /\ new_info.exists THEN "create"
  ELSE "modify"

EventCommand(event_type) ==
  IF event_type = "delete" THEN config.commands.on_delete
  ELSE IF event_type = "create" THEN config.commands.on_create
  ELSE config.commands.on_modify

\* the generic command tried before the per-event one
ResolveGenericFirst(event_type) ==
  IF config.commands.command # "" THEN config.commands.command
  ELSE EventCommand(event_type)

ResolveCommand(event_type) ==
  IF EventCommand(event_type) # "" THEN EventCommand(event_type)
  ELSE config.commands.command

\* ------------------------------------------------------ _scan_directory
\* os.walk lists every directory entry that is not a directory; FileInfo()
\* never raises, so an entry whose stat fails is stored with exists = FALSE
ScanDirectory(f, directory) ==
  [p \in {q \in Paths : DirOf(q) = directory /\ f[q].kind # "absent"} |->
     FileInfo(f, p)]

Range(seq) == {seq[i] : i \in 1..Len(seq)}

\* the loop "for dir_path in watch_paths: states.update(scan(dir_path))"
ScanAll(f, roots) ==
  [p \in UNION {DOMAIN ScanDirectory(f, d) : d \in Range(roots)} |->
     ScanDirectory(f, DirOf(p))[p]]

\* ------------------------------------------------------------- start()
WatchDirs == IF config.watch_dirs = << >> THEN <<Cwd>> ELSE config.watch_dirs

DirFound(d) == d \in dirExists

\* start() without the os.path.exists test
ValidRootsUnchecked == WatchDirs

ValidRoots == SelectSeq(WatchDirs, DirFound)

\* the initial run not asking whether a generic command is configured
InitialRunUnconditional == config.initial_run

InitialRunWanted == config.initial_run /\ config.commands.command # ""

InitWatcher ==
  /\ config \in WatcherConfig
  /\ dirExists \in SUBSET Dirs
  /\ (config.watch_dirs = << >> => dirExists = {Cwd})
  /\ fs \in [Paths -> {AbsentEntry, FileEntry(<<100, 10>>)}]
  /\ \A p \in Paths : DirOf(p) \notin dirExists => fs[p] = AbsentEntry
  /\ rt = 0
  /\ skew = 0
  /\ pc = "start"
  /\ watch_paths = << >>
  /\ file_states = ScanAll(fs, << >>)
  /\ current_states = ScanAll(fs, << >>)
  /\ todo = {}
  /\ handled = {}
  /\ last_change = 0
  /\ stop_flag = FALSE
  /\ handlerInstalled = FALSE
  /\ scans = 0
  /\ cycles = 0
  /\ initialRuns = 0
  /\ lastStart = {}
  /\ result = "none"
  /\ interrupted = FALSE
  /\ orphaned = FALSE
  /\ cfgFile = << >>
  /\ loaded = << >>
  /\ logOut = NoLog
  /\ exitCode = {}

\* the watcher constructed with no log file, the default
Init == InitWatcher /\ config.log_file = NoLogFile

\* start() from its first line to the initial run or the main loop
Start ==
  /\ pc = "start"
  /\ watch_paths' = ValidRoots
  /\ IF ValidRoots = << >>
       THEN /\ pc' = "done"
            /\ exitCode' = {1}
            /\ UNCHANGED << file_states, scans, initialRuns, handlerInstalled >>
       ELSE /\ file_states' = ScanAll(fs, ValidRoots)
            /\ scans' = scans + 1
            /\ exitCode' = exitCode
            /\ IF InitialRunWanted
                 THEN /\ pc' = "initial_run"
                      /\ initialRuns' = initialRuns + 1
                      /\ handlerInstalled' = handlerInstalled
                 ELSE /\ pc' = "loop"
                      /\ initialRuns' = initialRuns
                      /\ handlerInstalled' = TRUE
  /\ UNCHANGED << config, dirExists, logOut, cfgFile, loaded, orphaned, fs, rt, skew,
                  current_states, todo, handled, last_change, stop_flag,
                  cycles, lastStart, result, interrupted >>

\* subprocess.run(self.config.command, shell=True) returns, whatever its status
InitialRunEnd ==
  /\ pc = "initial_run"
  /\ pc' = "loop"
  /\ handlerInstalled' = TRUE
  /\ UNCHANGED << config, dirExists, logOut, cfgFile, loaded, orphaned, fs, rt, skew,
                  watch_paths, file_states, current_states, todo, handled,
                  last_change, stop_flag, scans, cycles, initialRuns, lastStart,
                  result, interrupted, exitCode >>

\* the filesystems the environment can make
FileSystems ==
  {f \in [Paths -> FsEntries] :
     \A p \in Paths : /\ f[p] \in EntriesOf(p)
                      /\ (DirOf(p) \notin dirExists => f[p] = AbsentEntry)}

\* one pass of "while not stop_flag": sleep (other processes change files
\* meanwhile), scan, build all_paths
SleepAndScan ==
  /\ pc = "loop"
  /\ ~stop_flag
  /\ rt + config.poll_interval <= MaxTime
  /\ rt' = rt + config.poll_interval
  /\ fs' \in FileSystems
  /\ current_states' = ScanAll(fs', watch_paths)
  /\ todo' = DOMAIN file_states \cup DOMAIN current_states'
  /\ handled' = {}
  /\ scans' = scans + 1
  /\ cycles' = cycles + 1
  /\ pc' = "process"
  /\ UNCHANGED << config, dirExists, logOut, cfgFile, loaded, orphaned, skew, watch_paths,
                  file_states, last_change, stop_flag, handlerInstalled,
                  initialRuns, lastStart, result, interrupted, exitCode >>

\* _run_command with a debounce check that records every check, dropped
\* or not, as the last trigger
RunCommandSlidingWindow(command, ev) ==
  IF command = "" THEN
    /\ handled' = handled \cup {[ev EXCEPT !.state = "nocommand"]}
    /\ logOut' = NoLog
    /\ UNCHANGED << last_change, lastStart, pc >>
  ELSE IF ~ShouldRun THEN
    /\ last_change' = Now
    /\ handled' = handled \cup {[ev EXCEPT !.state = "debounced"]}
    /\ logOut' = NoLog
    /\ UNCHANGED << lastStart, pc >>
  ELSE
    /\ last_change' = Now
    /\ \E written \in SinkResults : logOut' = LogCall("running", written)
    /\ handled' = handled \cup {[ev EXCEPT !.state = "running"]}
    /\ lastStart' = {rt}
    /\ pc' = "running"

\* _run_command up to the start of subprocess.run
RunCommand(command, ev) ==
  IF command = "" THEN
    /\ handled' = handled \cup {[ev EXCEPT !.state = "nocommand"]}
    /\ logOut' = NoLog
    /\ UNCHANGED << last_change, lastStart, pc >>
  ELSE IF ~ShouldRun THEN
    /\ handled' = handled \cup {[ev EXCEPT !.state = "debounced"]}
    /\ logOut' = NoLog
    /\ UNCHANGED << last_change, lastStart, pc >>
  ELSE
    /\ last_change' = Now
    /\ \E written \in SinkResults : logOut' = LogCall("running", written)
    /\ handled' = handled \cup {[ev EXCEPT !.state = "running"]}
    /\ lastStart' = {rt}
    /\ pc' = "running"

\* handle_change
HandleChange(path, old_info, new_info) ==
  LET call == [path |-> path, old |-> old_info, new |-> new_info,
               type |-> "none", command |-> "", state |-> "filtered"]
  IN  IF ~ShouldProcess(path) THEN
        /\ handled' = handled \cup {call}
        /\ logOut' = NoLog
        /\ UNCHANGED << last_change, lastStart, pc >>
      ELSE
        LET event_type == EventType(old_info, new_info)
            command == ResolveCommand(event_type)
        IN  RunCommand(command,
                       [call EXCEPT !.type = event_type, !.command = command])

\* one iteration of "for path in all_paths", up to the start of a command
HandlePath(path) ==
  /\ pc = "process"
  /\ path \in todo
  /\ todo' = todo \ {path}
  /\ result' = "none"
  /\ IF path \in DOMAIN file_states /\ path \in DOMAIN current_states THEN
       IF Changed(file_states[path], current_states[path])
         THEN HandleChange(path, file_states[path], current_states[path])
         ELSE /\ logOut' = NoLog
              /\ UNCHANGED << handled, last_change, lastStart, pc >>
     ELSE IF path \in DOMAIN file_states THEN
       HandleChange(path, file_states[path],
                    [FileInfo(fs, path) EXCEPT !.exists = FALSE])
     ELSE
       HandleChange(path, FileInfo(fs, path), current_states[path])
  /\ UNCHANGED << config, dirExists, cfgFile, loaded, orphaned, fs, rt, skew,
                  watch_paths, file_states, current_states, stop_flag,
                  handlerInstalled, scans, cycles, initialRuns, interrupted,
                  exitCode >>

Outcomes == {"exit0", "nonzero", "timeout", "error"}

\* on TimeoutExpired subprocess.run kills and reaps the shell it started;
\* the processes that shell had started are not signalled, and they may have
\* ended or still be executing
AfterCommand(outcome) ==
  IF outcome = "timeout" THEN {orphaned, TRUE} ELSE {orphaned}

\* _run_command setting the stop flag only after a successful command
CommandEndStopOnSuccess(outcome) ==
  /\ pc = "running"
  /\ handled' = {IF ev.state = "running" THEN [ev EXCEPT !.state = "ended"] ELSE ev :
                   ev \in handled}
  /\ result' = outcome
  /\ stop_flag' = IF config.oneshot /\ outcome = "exit0" THEN TRUE ELSE stop_flag
  /\ orphaned' \in AfterCommand(outcome)
  /\ \E written \in SinkResults : logOut' = LogCall(outcome, written)
  /\ pc' = "process"
  /\ UNCHANGED << config, dirExists, cfgFile, loaded, fs, rt, skew,
                  watch_paths, file_states, current_states, todo, last_change,
                  handlerInstalled, scans, cycles, initialRuns, lastStart,
                  interrupted, exitCode >>

\* _run_command without "except Exception": a command that cannot be
\* launched raises out of the for loop, through "finally: self.stop()"
CommandEndErrorEscapes(outcome) ==
  /\ pc = "running"
  /\ handled' = {IF ev.state = "running" THEN [ev EXCEPT !.state = "ended"] ELSE ev :
                   ev \in handled}
  /\ result' = outcome
  /\ stop_flag' = IF config.oneshot \/ outcome = "error" THEN TRUE ELSE stop_flag
  /\ orphaned' \in AfterCommand(outcome)
  /\ \E written \in SinkResults : logOut' = LogCall(outcome, written)
  /\ pc' = IF outcome = "error" THEN "done" ELSE "process"
  /\ exitCode' = IF outcome = "error" THEN {1} ELSE exitCode
  /\ UNCHANGED << config, dirExists, cfgFile, loaded, fs, rt, skew,
                  watch_paths, file_states, current_states, todo, last_change,
                  handlerInstalled, scans, cycles, initialRuns, lastStart,
                  interrupted >>

\* subprocess.run ends (or raises); the rest of _run_command
CommandEnd(outcome) ==
  /\ pc = "running"
  /\ handled' = {IF ev.state = "running" THEN [ev EXCEPT !.state = "ended"] ELSE ev :
                   ev \in handled}
  /\ result' = outcome
  /\ stop_flag' = IF config.oneshot THEN TRUE ELSE stop_flag
  /\ orphaned' \in AfterCommand(outcome)
  /\ \E written \in SinkResults : logOut' = LogCall(outcome, written)
  /\ pc' = "process"
  /\ UNCHANGED << config, dirExists, cfgFile, loaded, fs, rt, skew,
                  watch_paths, file_states, current_states, todo, last_change,
                  handlerInstalled, scans, cycles, initialRuns, lastStart,
                  interrupted, exitCode >>

\* the assignment of file_states not waiting for the end of the for loop
UpdateStatesInsideLoop ==
  /\ pc = "process"
  /\ file_states' = current_states
  /\ handled' = {}
  /\ result' = "none"
  /\ logOut' = NoLog
  /\ pc' = "loop"
  /\ UNCHANGED << config, dirExists, cfgFile, loaded, orphaned, fs, rt, skew,
                  watch_paths, current_states, todo, last_change,
                  stop_flag, handlerInstalled, scans, cycles, initialRuns,
                  lastStart, interrupted, exitCode >>

\* the replacement keeping the old snapshot of every path whose event the
\* debounce check dropped, so that the change is seen again
UpdateStatesRetriesDropped ==
  LET dropped == {ev.path : ev \in {e \in handled : e.state = "debounced"}}
      kept == dropped \cap DOMAIN file_states
      fresh == DOMAIN current_states \ (dropped \ DOMAIN file_states)
  IN  /\ pc = "process"
      /\ todo = {}
      /\ file_states' = [p \in kept \cup fresh |->
                           IF p \in kept THEN file_states[p]
                                         ELSE current_states[p]]
      /\ handled' = {}
      /\ result' = "none"
      /\ logOut' = NoLog
      /\ pc' = "loop"
      /\ UNCHANGED << config, dirExists, cfgFile, loaded, orphaned, fs, rt,
                      skew, watch_paths, current_states, todo, last_change,
                      stop_flag, handlerInstalled, scans, cycles,
                      initialRuns, lastStart, interrupted, exitCode >>

\* "self.handler.file_states = current_states" after the for loop
UpdateStates ==
  /\ pc = "process"
  /\ todo = {}
  /\ file_states' = current_states
  /\ handled' = {}
  /\ result' = "none"
  /\ logOut' = NoLog
  /\ pc' = "loop"
  /\ UNCHANGED << config, dirExists, cfgFile, loaded, orphaned, fs, rt, skew,
                  watch_paths, current_states, todo, last_change,
                  stop_flag, handlerInstalled, scans, cycles, initialRuns,
                  lastStart, interrupted, exitCode >>

\* the while condition fails: finally: self.stop(); return 0; sys.exit(main())
LoopExit ==
  /\ pc = "loop"
  /\ stop_flag
  /\ stop_flag' = TRUE
  /\ exitCode' = {0}
  /\ pc' = "done"
  /\ UNCHANGED << config, dirExists, logOut, cfgFile, loaded, orphaned, fs, rt, skew,
                  watch_paths, file_states, current_states, todo, handled,
                  last_change, handlerInstalled, scans, cycles, initialRuns,
                  lastStart, result, interrupted >>

\* status of a Python process ended by an unhandled KeyboardInterrupt
UnhandledInterruptCodes == {1, 130}

\* SIGINT.  With signal_handler installed: stop() and sys.exit(0), the
\* SystemExit passing through "finally: self.stop()".  Before that, Python's
\* default handler raises KeyboardInterrupt, which start() catches nowhere
\* outside the main loop.  Raised while subprocess.run waits, either
\* exception makes subprocess.run kill the command before it propagates.
Interrupt ==
  /\ pc # "done"
  /\ interrupted' = TRUE
  /\ pc' = "done"
  /\ IF handlerInstalled
       THEN stop_flag' = TRUE /\ exitCode' = {0}
       ELSE stop_flag' = stop_flag /\ exitCode' \in {{c} : c \in UnhandledInterruptCodes}
  /\ UNCHANGED << config, dirExists, logOut, cfgFile, loaded, orphaned, fs, rt, skew,
                  watch_paths, file_states, current_states, todo, handled,
                  last_change, handlerInstalled, scans, cycles, initialRuns,
                  lastStart, result >>

\* ---------------------------------------------------------- environment
\* what a timed-out command left behind comes to its end; seen from the
\* loop it makes no difference when in a cycle, so it is placed in the sleep
OrphansEnd ==
  /\ pc = "loop"
  /\ orphaned
  /\ orphaned' = FALSE
  /\ UNCHANGED << config, dirExists, logOut, cfgFile, loaded, fs, rt, skew, pc,
                  watch_paths, file_states, current_states, todo, handled,
                  last_change, stop_flag, handlerInstalled, scans, cycles,
                  initialRuns, lastStart, result, interrupted, exitCode >>

\* time passes while a command runs
Tick ==
  /\ pc = "running"
  /\ rt < MaxTime
  /\ rt' = rt + 1
  /\ UNCHANGED << config, dirExists, logOut, cfgFile, loaded, orphaned, fs, skew, pc,
                  watch_paths, file_states, current_states, todo, handled,
                  last_change, stop_flag, handlerInstalled, scans, cycles,
                  initialRuns, lastStart, result, interrupted, exitCode >>

Skews == (0 - MaxSkew)..MaxSkew

\* the system clock is stepped: time.time() now differs from real time by d
ClockAdjust(d) ==
  /\ pc \in {"loop", "running"}
  /\ d # skew
  /\ skew' = d
  /\ UNCHANGED << config, dirExists, logOut, cfgFile, loaded, orphaned, fs, rt, pc, watch_paths,
                  file_states, current_states, todo, handled, last_change,
                  stop_flag, handlerInstalled, scans, cycles, initialRuns,
                  lastStart, result, interrupted, exitCode >>

\* the paths for which the rest of the for loop calls FileInfo(path), a stat
WillStat(p) ==
  /\ p \in todo
  /\ (p \notin DOMAIN file_states \/ p \notin DOMAIN current_states)

\* another process creates, rewrites, removes or breaks a file between the
\* scan and the for loop's own stat of it, or while a command runs.  Only
\* the paths the for loop has yet to stat: a change to any other path is
\* first observed by the next scan, before which SleepAndScan lets the
\* filesystem become anything.
FsChange(p, entry) ==
  /\ pc \in {"process", "running"}
  /\ WillStat(p)
  /\ DirOf(p) \in dirExists
  /\ entry \in EntriesOf(p) \ {fs[p]}
  /\ fs' = [fs EXCEPT ![p] = entry]
  /\ UNCHANGED << config, dirExists, logOut, cfgFile, loaded, orphaned, rt, skew, pc, watch_paths,
                  file_states, current_states, todo, handled, last_change,
                  stop_flag, handlerInstalled, scans, cycles, initialRuns,
                  lastStart, result, interrupted, exitCode >>

Next ==
  \/ Start
  \/ InitialRunEnd
  \/ SleepAndScan
  \/ \E path \in Paths : HandlePath(path)
  \/ \E outcome \in Outcomes : CommandEnd(outcome)
  \/ UpdateStates
  \/ LoopExit
  \/ Interrupt
  \/ Tick
  \/ OrphansEnd
  \/ \E p \in Paths, entry \in FsEntries : FsChange(p, entry)

Spec == Init /\ [][Next]_vars

\* the same program on a machine whose wall clock is stepped
NextClock ==
  \/ Next
  \/ \E d \in Skews : ClockAdjust(d)

InitClock ==
  /\ Init
  /\ config.watch_dirs # << >>
  /\ dirExists = Dirs
  /\ config.patterns.watch_patterns = NoPatterns
  /\ config.commands.command # ""

SpecClock == InitClock /\ [][NextClock]_vars

\* the stepped clock with the generic command alone, run once at startup,
\* a debounce window, and both files there from the start
InitDebounce ==
  /\ InitClock
  /\ config.commands.on_create = ""
  /\ config.initial_run
  /\ config.debounce_ms = 1
  /\ fs = [p \in Paths |-> FileEntry(<<100, 10>>)]

SpecDebounce == InitDebounce /\ [][NextClock]_vars

\* the watcher with a log file and a generic command, both roots there
InitLog ==
  /\ InitWatcher
  /\ config.log_file # NoLogFile
  /\ config.watch_dirs # << >>
  /\ dirExists = Dirs
  /\ config.patterns.watch_patterns = NoPatterns
  /\ config.commands.command # ""

SpecLog == InitLog /\ [][Next]_vars

\* ------------------------------------------- should_process on its own
\* include and exclude lists over the characters of the two paths and "q"
FilterIncludes ==
  { << >>, <<ExtP>>, <<<<"a">>>>, <<<<".", "q">>>>, <<<<".">>>>,
    <<<<".", "q">>, <<"a">>>>, <<<<"q">>>>, <<<<"x", "/">>, <<"q">>>> }

FilterExcludes ==
  { << >>, <<SubB>>, <<<<"q">>>>, <<<<"q">>, <<"y">>>>, <<ExtP>> }

FilterConfigs ==
  { [watch_dirs |-> <<"d1", "d2">>,
     patterns |-> [watch_patterns |-> wp, exclude_patterns |-> xp],
     commands |-> [command |-> "", on_create |-> "", on_modify |-> "",
                   on_delete |-> ""],
     on_move |-> "mv", debounce_ms |-> 0, poll_interval |-> 1,
     oneshot |-> FALSE, initial_run |-> FALSE] :
       wp \in FilterIncludes, xp \in FilterExcludes }

InitFilter ==
  /\ config \in FilterConfigs
  /\ dirExists = Dirs
  /\ fs = [p \in Paths |-> FileEntry(<<100, 10>>)]
  /\ rt = 0
  /\ skew = 0
  /\ pc = "filter"
  /\ watch_paths = << >>
  /\ file_states = ScanAll(fs, << >>)
  /\ current_states = ScanAll(fs, << >>)
  /\ todo = {}
  /\ handled = {}
  /\ last_change = 0
  /\ stop_flag = FALSE
  /\ handlerInstalled = FALSE
  /\ scans = 0
  /\ cycles = 0
  /\ initialRuns = 0
  /\ lastStart = {}
  /\ result = "none"
  /\ interrupted = FALSE
  /\ orphaned = FALSE
  /\ cfgFile = << >>
  /\ loaded = << >>
  /\ logOut = NoLog
  /\ exitCode = {}

\* should_process(path) is called and its answer recorded
Filter(path) ==
  /\ pc = "filter"
  /\ handled' = handled \cup
       {[path |-> path,
         state |-> IF ShouldProcess(path) THEN "passed" ELSE "filtered"]}
  /\ UNCHANGED << config, dirExists, logOut, cfgFile, loaded, orphaned, fs, rt, skew, pc,
                  watch_paths, file_states, current_states, todo,
                  last_change, stop_flag, handlerInstalled, scans, cycles,
                  initialRuns, lastStart, result, interrupted, exitCode >>

NextFilter == \E path \in Paths : Filter(path)

SpecFilter == InitFilter /\ [][NextFilter]_vars

\* ------------------------------------- save_config, load_config, main
\* Python values: <<"list", strings>>, <<"str", s>>, <<"int", n>>,
\* <<"float", tenths>>, <<"bool", b>>, <<"none">>
PyList(seq) == <<"list", seq>>
PyStr(str) == <<"str", str>>
PyInt(n) == <<"int", n>>
PyFloat(tenths) == <<"float", tenths>>
PyBool(b) == <<"bool", b>>
PyNone == <<"none">>

\* WatcherConfig.__init__: the attributes of a fresh configuration
FreshConfig ==
  [watch_dirs |-> PyList(<< >>), watch_patterns |-> PyList(<< >>),
   exclude_patterns |-> PyList(<< >>),
   command |-> PyStr(""), on_create |-> PyStr(""), on_modify |-> PyStr(""),
   on_delete |-> PyStr(""), on_move |-> PyStr(""),
   debounce_ms |-> PyInt(300), poll_interval |-> PyFloat(10),
   recurse |-> PyBool(TRUE), oneshot |-> PyBool(FALSE),
   initial_run |-> PyBool(FALSE), show_events |-> PyBool(FALSE),
   log_file |-> PyNone]

Keys == DOMAIN FreshConfig

\* the configurations that are saved
SavedConfigs ==
  { [FreshConfig EXCEPT !.watch_dirs = PyList(wd), !.command = PyStr(c),
                        !.debounce_ms = PyInt(db), !.poll_interval = PyFloat(pi),
                        !.recurse = PyBool(rc), !.log_file = lf] :
      wd \in {<< >>, <<"d1">>}, c \in {"", "gen"}, db \in {0, 300, 500},
      pi \in {10, 5}, rc \in BOOLEAN, lf \in {PyNone, PyStr("log")} }

\* to_dict: every attribute under its own name
ToDict(c) == [k \in Keys |-> c[k]]

\* json.dump of one value: an array of strings, a string, a number literal
\* with or without a fraction part, true, false or null
JsonDump(v) ==
  IF v[1] = "list" THEN <<"array", [i \in 1..Len(v[2]) |-> <<"string", v[2][i]>>]>>
  ELSE IF v[1] = "str" THEN <<"string", v[2]>>
  ELSE IF v[1] = "int" THEN <<"number", v[2], << >> >>
  ELSE IF v[1] = "float" THEN <<"number", v[2] \div 10, <<v[2] % 10>> >>
  ELSE IF v[1] = "bool" THEN (IF v[2] THEN <<"true">> ELSE <<"false">>)
  ELSE <<"null">>

\* json.load of one value
JsonLoad(j) ==
  IF j[1] = "array" THEN PyList([i \in 1..Len(j[2]) |-> j[2][i][2]])
  ELSE IF j[1] = "string" THEN PyStr(j[2])
  ELSE IF j[1] = "number" THEN
    (IF j[3] = << >> THEN PyInt(j[2]) ELSE PyFloat(j[2] * 10 + j[3][1]))
  ELSE IF j[1] = "true" THEN PyBool(TRUE)
  ELSE IF j[1] = "false" THEN PyBool(FALSE)
  ELSE PyNone

\* the second arguments of the data.get calls of load_config
LoadDefault(k) ==
  IF k \in {"watch_dirs", "watch_patterns", "exclude_patterns"} THEN PyList(<< >>)
  ELSE IF k \in {"command", "on_create", "on_modify", "on_delete", "on_move"}
    THEN PyStr("")
  ELSE IF k = "debounce_ms" THEN PyInt(300)
  ELSE IF k = "poll_interval" THEN PyFloat(10)
  ELSE IF k = "recurse" THEN PyBool(TRUE)
  ELSE IF k \in {"oneshot", "initial_run", "show_events"} THEN PyBool(FALSE)
  ELSE PyNone

\* load_config with False as the default of every flag
LoadConfigFlagsOff(file) ==
  [k \in Keys |-> IF k \in DOMAIN file THEN JsonLoad(file[k])
                  ELSE IF k = "recurse" THEN PyBool(FALSE) ELSE LoadDefault(k)]

LoadConfig(file) ==
  [k \in Keys |-> IF k \in DOMAIN file THEN JsonLoad(file[k]) ELSE LoadDefault(k)]

\* argparse's result for "--load-config FILE" alone, and with options
DefaultArgs ==
  [debounce |-> 300, poll |-> 10, no_recurse |-> FALSE, oneshot |-> FALSE,
   initial_run |-> FALSE, show_events |-> FALSE, log_file |-> ""]

ArgChoices ==
  { DefaultArgs,
    [DefaultArgs EXCEPT !.debounce = 0, !.oneshot = TRUE],
    [DefaultArgs EXCEPT !.poll = 5, !.no_recurse = TRUE, !.log_file = "log"] }

\* main, "Apply options"
ApplyOptions(c, args) ==
  [c EXCEPT
     !.debounce_ms = IF args.debounce # 0 THEN PyInt(args.debounce) ELSE @,
     !.poll_interval = IF args.poll # 0 THEN PyFloat(args.poll) ELSE @,
     !.recurse = IF args.no_recurse THEN PyBool(FALSE) ELSE @,
     !.oneshot = IF args.oneshot THEN PyBool(TRUE) ELSE @,
     !.initial_run = IF args.initial_run THEN PyBool(TRUE) ELSE @,
     !.show_events = IF args.show_events THEN PyBool(TRUE) ELSE @,
     !.log_file = IF args.log_file # "" THEN PyStr(args.log_file) ELSE @]

InitConfig ==
  /\ config \in SavedConfigs
  /\ dirExists = Dirs
  /\ fs = [p \in Paths |-> AbsentEntry]
  /\ rt = 0
  /\ skew = 0
  /\ pc = "config"
  /\ watch_paths = << >>
  /\ file_states = ScanAll(fs, << >>)
  /\ current_states = ScanAll(fs, << >>)
  /\ todo = {}
  /\ handled = {}
  /\ last_change = 0
  /\ stop_flag = FALSE
  /\ handlerInstalled = FALSE
  /\ scans = 0
  /\ cycles = 0
  /\ initialRuns = 0
  /\ lastStart = {}
  /\ result = "none"
  /\ interrupted = FALSE
  /\ orphaned = FALSE
  /\ cfgFile = << >>
  /\ loaded = << >>
  /\ logOut = NoLog
  /\ exitCode = {}

\* save_config
SaveConfig ==
  /\ pc = "config"
  /\ cfgFile' = [k \in Keys |-> JsonDump(ToDict(config)[k])]
  /\ pc' = "saved"
  /\ UNCHANGED << config, dirExists, logOut, loaded, orphaned, fs, rt, skew,
                  watch_paths, file_states, current_states, todo, handled,
                  last_change, stop_flag, handlerInstalled, scans, cycles,
                  initialRuns, lastStart, result, interrupted, exitCode >>

\* somebody edits the file and removes one key
DropKey(k) ==
  /\ pc = "saved"
  /\ cfgFile' = [j \in DOMAIN cfgFile \ {k} |-> cfgFile[j]]
  /\ pc' = "edited"
  /\ UNCHANGED << config, dirExists, logOut, loaded, orphaned, fs, rt, skew,
                  watch_paths, file_states, current_states, todo, handled,
                  last_change, stop_flag, handlerInstalled, scans, cycles,
                  initialRuns, lastStart, result, interrupted, exitCode >>

\* FileWatcher.load_config(filepath)
LoadConfigFile ==
  /\ pc \in {"saved", "edited"}
  /\ loaded' = LoadConfig(cfgFile)
  /\ pc' = "loaded"
  /\ UNCHANGED << config, dirExists, logOut, cfgFile, orphaned, fs, rt, skew,
                  watch_paths, file_states, current_states, todo, handled,
                  last_change, stop_flag, handlerInstalled, scans, cycles,
                  initialRuns, lastStart, result, interrupted, exitCode >>

\* main() started with --load-config, up to FileWatcher(config)
MainLoadConfig(args) ==
  /\ pc \in {"saved", "edited"}
  /\ loaded' = ApplyOptions(LoadConfig(cfgFile), args)
  /\ pc' = IF args = DefaultArgs THEN "restored" ELSE "restored_with_options"
  /\ UNCHANGED << config, dirExists, logOut, cfgFile, orphaned, fs, rt, skew,
                  watch_paths, file_states, current_states, todo, handled,
                  last_change, stop_flag, handlerInstalled, scans, cycles,
                  initialRuns, lastStart, result, interrupted, exitCode >>

NextConfig ==
  \/ SaveConfig
  \/ \E k \in Keys : DropKey(k)
  \/ LoadConfigFile
  \/ \E args \in ArgChoices : MainLoadConfig(args)

SpecConfig == InitConfig /\ [][NextConfig]_vars

\* =================================================================== claims
\* the for loop of the cycle is over and file_states is not yet replaced:
\* file_states is P, current_states is C, handled holds the cycle's events
CycleDone == pc = "process" /\ todo = {}

EventsFor(p) == {ev \in handled : ev.path = p}

\* a snapshot with exists = FALSE stands for "observed absent"
PresentIn(states, p) == p \in DOMAIN states /\ states[p].exists

Included(p) ==
  \/ Len(config.patterns.watch_patterns) = 0
  \/ \E k \in 1..Len(config.patterns.watch_patterns) :
        IsSubstring(config.patterns.watch_patterns[k], PathStr(p))

Excluded(p) ==
  \E k \in 1..Len(config.patterns.exclude_patterns) :
    IsSubstring(config.patterns.exclude_patterns[k], PathStr(p))

Passes(p) == Included(p) /\ ~Excluded(p)

PerEventCommand ==
  [create |-> config.commands.on_create,
   modify |-> config.commands.on_modify,
   delete |-> config.commands.on_delete]

ExpectedCommand(t) ==
  IF PerEventCommand[t] # "" THEN PerEventCommand[t] ELSE config.commands.command

SomeRootExists == \E i \in 1..Len(WatchDirs) : WatchDirs[i] \in dirExists

\* C1: when a cycle's for loop is over, every filter-passing path absent from
\* P and present as a file in C has exactly one handled event, of type
\* "create", whose command is on_create or else the generic command.
C1_CreatedEvent ==
  CycleDone =>
    \A p \in Paths :
      (~PresentIn(file_states, p) /\ PresentIn(current_states, p) /\ Passes(p)) =>
        /\ Cardinality(EventsFor(p)) = 1
        /\ \A ev \in EventsFor(p) :
             ev.type = "create" /\ ev.command = ExpectedCommand("create")

\* C2: when a cycle's for loop is over, every path present in P and absent
\* from C has exactly one handled event; its new snapshot has exists = FALSE
\* and, unless the filter discarded it, its type is "delete".
C2_DeletedEvent ==
  CycleDone =>
    \A p \in Paths :
      (PresentIn(file_states, p) /\ ~PresentIn(current_states, p)) =>
        /\ Cardinality(EventsFor(p)) = 1
        /\ \A ev \in EventsFor(p) :
             /\ ~ev.new.exists
             /\ ev.old = file_states[p]
             /\ (Passes(p) => ev.type = "delete")

C2_Witness ==
  /\ CycleDone
  /\ \E p \in Paths :
       /\ PresentIn(file_states, p)
       /\ p \notin DOMAIN current_states
       /\ \E ev \in EventsFor(p) : ev.type = "delete" /\ ~ev.new.exists

\* C3: when a cycle's for loop is over, a path present in both P and C has
\* exactly one handled event, of type "modify" unless filtered, if its mtime
\* or its size differs between P and C, and no event if both are equal.
C3_ModifiedEvent ==
  CycleDone =>
    \A p \in Paths :
      (PresentIn(file_states, p) /\ PresentIn(current_states, p)) =>
        IF \/ file_states[p].mtime # current_states[p].mtime
           \/ file_states[p].size # current_states[p].size
          THEN /\ Cardinality(EventsFor(p)) = 1
               /\ \A ev \in EventsFor(p) : Passes(p) => ev.type = "modify"
          ELSE EventsFor(p) = {}

\* Scenario B and a size-only change, each seen as one "modify" event
C3_Witness ==
  /\ CycleDone
  /\ \E p \in Paths :
       /\ PresentIn(file_states, p) /\ PresentIn(current_states, p)
       /\ file_states[p].mtime = 100 /\ file_states[p].size = 10
       /\ \/ current_states[p].mtime = 150 /\ current_states[p].size = 10
          \/ current_states[p].mtime = 100 /\ current_states[p].size = 20
       /\ \E ev \in EventsFor(p) : ev.type = "modify"

\* a dispatched command starts in this step
CommandStarts == pc # "running" /\ pc' = "running"

\* C4: a command the dispatcher starts begins at least debounce_ms of real
\* time after the previous one it started.
C4_DebounceSingleFire ==
  [][CommandStarts => \A t \in lastStart : rt' - t >= config.debounce_ms]_vars

\* C5: with oneshot set, a dispatched command that ends, however it ends,
\* leaves the stop flag set; the stop flag is never cleared; and once it is
\* set no further scan or cycle is started.
C5_OneshotStopFlag ==
  [][/\ (config.oneshot /\ pc = "running" /\ pc' # "running") => stop_flag'
     /\ stop_flag => stop_flag'
     /\ stop_flag => (scans' = scans /\ cycles' = cycles)
    ]_vars

C5_Witness ==
  /\ config.oneshot
  /\ stop_flag
  /\ result = "timeout"
  /\ ~interrupted

\* C6: with oneshot set the dispatcher starts at most one command in a run.
C6_OneshotSingleCommand ==
  [][(config.oneshot /\ CommandStarts) => lastStart = {}]_vars

\* C7: an event on a path that contains an exclude pattern is discarded: the
\* step that handles it starts no command and leaves the last-trigger time,
\* the stop flag and the record of started commands unchanged.
C7_ExcludePrecedence ==
  [][\A ev \in handled' \ handled :
       Excluded(ev.path) =>
         /\ ev.state = "filtered"
         /\ pc' # "running"
         /\ last_change' = last_change
         /\ stop_flag' = stop_flag
         /\ lastStart' = lastStart
    ]_vars

\* an event on a path matching both an include and an exclude pattern
C7_Witness ==
  \E ev \in handled :
    /\ Excluded(ev.path)
    /\ Len(config.patterns.watch_patterns) > 0
    /\ Included(ev.path)
    /\ ev.state = "filtered"

\* C8: an event that passes the filter resolves to its per-event command if
\* configured, else to the generic command; if neither is configured the
\* step starts nothing and leaves last-trigger time and stop flag unchanged.
C8_CommandResolution ==
  [][\A ev \in handled' \ handled :
       (ev.state # "filtered" /\ pc = "process") =>
         /\ ev.command = ExpectedCommand(ev.type)
         /\ (ev.state = "running") = (pc' = "running")
         /\ ExpectedCommand(ev.type) = "" =>
              /\ ev.state = "nocommand"
              /\ pc' = "process"
              /\ last_change' = last_change
              /\ stop_flag' = stop_flag
              /\ lastStart' = lastStart
         /\ ev.state = "running" => ExpectedCommand(ev.type) # ""
    ]_vars

\* in one cycle: one event with nothing configured for it, and one run with
\* its per-event command
C8_Witness ==
  \E ev1, ev2 \in handled :
    /\ ev1.state = "nocommand" /\ ev1.type = "modify"
    /\ ev2.type = "delete" /\ ev2.command = config.commands.on_delete
    /\ ev2.state \in {"running", "ended"}

\* C9: if no configured watch root exists, start() ends with exit code 1
\* without any scan, command or loop cycle.
C9_NoValidRoots ==
  (~SomeRootExists /\ pc # "start") =>
    /\ pc = "done"
    /\ scans = 0
    /\ cycles = 0
    /\ initialRuns = 0
    /\ lastStart = {}
    /\ file_states = ScanAll(fs, << >>)
    /\ (~interrupted => exitCode = {1})

C9_Witness ==
  /\ ~SomeRootExists
  /\ config.initial_run
  /\ config.commands.command # ""
  /\ pc = "done"
  /\ ~interrupted
  /\ exitCode = {1}

\* C10: with a valid watch root, the process ends with exit code 0, also
\* when it is ended by an interrupt at any point after start() has begun;
\* a seed scan already taken (scans >= 1) shows that start() is under way.
C10_ExitCodeZero ==
  (SomeRootExists /\ scans >= 1 /\ pc = "done") => exitCode = {0}

\* C11: every snapshot stored by a scan, in the current set as in the
\* candidate set, has exists = TRUE: a file whose stat fails is left out.
C11_ScanExcludesUnreadable ==
  /\ \A p \in DOMAIN file_states : file_states[p].exists
  /\ \A p \in DOMAIN current_states : current_states[p].exists

\* C12: the seed scan handles no event and dispatches nothing; in a cycle
\* whose candidate set equals the previous set (same paths, same existence,
\* mtime and size) no event is handled and no command is started.
C12_Baseline ==
  /\ cycles = 0 => (handled = {} /\ lastStart = {} /\ pc # "running")
  /\ (pc \in {"process", "running"} /\ current_states = file_states) =>
       (handled = {} /\ pc = "process")

\* files present since startup, unchanged, a command configured: nothing
C12_Witness ==
  /\ CycleDone
  /\ current_states = file_states
  /\ DOMAIN file_states = Paths
  /\ config.commands.command # ""
  /\ config.debounce_ms = 0
  /\ handled = {}
  /\ lastStart = {}

\* C13: file_states changes only by the seed scan or by the replacement at
\* the end of a cycle; the replacement happens when every path of the cycle
\* has been handled and no command is running, and installs the candidate
\* set; while the cycle is processed file_states and the candidate set stay
\* as they are; between cycles file_states is the last candidate set.
C13_SnapshotSetReplaced ==
  [][/\ file_states' # file_states =>
          (pc = "start" \/ (pc = "process" /\ pc' = "loop"))
     /\ (pc = "process" /\ pc' = "loop") =>
          /\ todo = {}
          /\ file_states' = current_states
          /\ \A ev \in handled : ev.state # "running"
     /\ (pc \in {"process", "running"} /\ pc' # "loop") =>
          (file_states' = file_states /\ current_states' = current_states)
     /\ (pc' = "loop" /\ cycles' > 0) => file_states' = current_states'
     /\ cycles' # cycles => (pc = "loop" /\ pc' = "process" /\ cycles' = cycles + 1)
    ]_vars

\* a cycle with two events and a command waited for, then the replacement
C13_Witness ==
  /\ pc = "loop"
  /\ cycles = 1
  /\ lastStart # {}
  /\ file_states = current_states
  /\ DOMAIN file_states = Paths
  /\ fs # [p \in Paths |-> FileEntry(<<100, 10>>)]

\* C14: at no time do two commands started by the watcher execute: while a
\* command (dispatched or initial run) runs, nothing of an earlier,
\* timed-out command is still executing.
C14_NoConcurrentCommands ==
  ~(orphaned /\ pc \in {"running", "initial_run"})

Failures == {"nonzero", "timeout", "error"}

\* C15: without oneshot, a dispatched command that ends in failure leaves
\* the stop flag clear and the process running, and the for loop goes on
\* with the same cycle; short of an interrupt the stop flag is never set, so
\* the while condition lets the next cycle begin.
C15_DispatchErrorsRecovered ==
  [][/\ (~config.oneshot /\ pc = "running" /\ result' \in Failures) =>
          /\ pc' = "process"
          /\ ~stop_flag'
          /\ exitCode' = {}
          /\ todo' = todo
          /\ file_states' = file_states /\ current_states' = current_states
     /\ (~config.oneshot /\ ~interrupted' /\ SomeRootExists) =>
          (~stop_flag' /\ exitCode' = {})
    ]_vars

\* the command started in the first cycle timed out, and the second cycle
\* is under way
C15_Witness ==
  /\ ~config.oneshot
  /\ orphaned
  /\ lastStart = {1}
  /\ cycles = 2
  /\ pc = "process"
  /\ ~stop_flag

\* the watcher stops waiting for a command because its time limit is over
TimeoutExpires == CommandEnd("timeout")

\* C16: whenever the watcher waits for a command it has started, dispatched
\* or initial run, the step by which the time limit ends the wait is
\* possible, so that the wait ends even if the command never exits.
C16_BoundedBlocking ==
  pc \in {"running", "initial_run"} => ENABLED TimeoutExpires

\* C17: once the seed scan is taken, the generic command has been started as
\* initial run exactly once if initial_run is set and a generic command is
\* configured, and never otherwise; it runs after the seed scan and before
\* the first cycle; starting it and its end leave the last-trigger time, the
\* stop flag and the record of dispatched commands as they were, so that the
\* first cycle begins with last_change = 0 and the stop flag clear.
C17_InitialRun ==
  [][/\ scans' >= 1 =>
          initialRuns' = IF config.initial_run /\ config.commands.command # ""
                           THEN 1 ELSE 0
     /\ pc' = "initial_run" => (scans' = 1 /\ cycles' = 0)
     /\ (pc = "initial_run" \/ pc' = "initial_run") =>
          /\ last_change' = last_change
          /\ stop_flag' = stop_flag
          /\ lastStart' = lastStart
     /\ (cycles' = 0 /\ ~interrupted') => (last_change' = 0 /\ ~stop_flag')
    ]_vars

\* a oneshot run with an initial run: the first event of the first cycle is
\* dispatched, not debounced
C17_Witness ==
  /\ config.oneshot
  /\ config.initial_run
  /\ config.debounce_ms = 1
  /\ initialRuns = 1
  /\ cycles = 1
  /\ pc = "running"
  /\ Cardinality(handled) = 1

\* C18: the watcher is stopped only when no command it dispatched is still
\* running: an interrupt that arrives while a command runs lets the command
\* come to its end first.
C18_Cancellation ==
  pc = "done" => \A ev \in handled : ev.state # "running"

\* C19: a file moved from path a to path b between two scans, both passing
\* the filter, has at the end of the cycle exactly one event on a, of type
\* "delete", and exactly one on b, of type "create"; no event has the type
\* "move" and none carries the on_move command.
C19_MoveHandling ==
  /\ \A ev \in handled : ev.type # "move" /\ ev.command # config.on_move
  /\ CycleDone =>
       \A a, b \in Paths :
         ( /\ a # b
           /\ PresentIn(file_states, a) /\ a \notin DOMAIN current_states
           /\ b \notin DOMAIN file_states /\ PresentIn(current_states, b)
           /\ current_states[b] = file_states[a]
           /\ Passes(a) /\ Passes(b) ) =>
             /\ Cardinality(EventsFor(a)) = 1
             /\ \A ev \in EventsFor(a) : ev.type = "delete"
             /\ Cardinality(EventsFor(b)) = 1
             /\ \A ev \in EventsFor(b) : ev.type = "create"

\* pat is the file extension of the path s: the part of the file name from
\* its last dot, the dot being neither its first nor its last character
IsExtension(pat, s) ==
  \E i \in 2..(Len(s) - 1) :
    /\ s[i] = "."
    /\ s[i - 1] # "/"
    /\ \A j \in (i + 1)..Len(s) : s[j] # "." /\ s[j] # "/"
    /\ pat = SubSeq(s, i, Len(s))

FilterClaim(p) ==
  LET wp == config.patterns.watch_patterns
      xp == config.patterns.exclude_patterns
  IN  /\ \/ wp = << >>
         \/ \E k \in 1..Len(wp) :
              \/ wp[k][1] = "." /\ IsExtension(wp[k], PathStr(p))
              \/ IsSubstring(wp[k], PathStr(p))
      /\ \A k \in 1..Len(xp) : ~IsSubstring(xp[k], PathStr(p))

\* C20: should_process(path) answers true exactly if the include list is
\* empty or some include pattern is the path's extension (pattern beginning
\* with a dot) or a substring of the path, and no exclude pattern is a
\* substring of the path; with both lists empty every path passes.
C20_PatternFilter ==
  /\ \A ev \in handled : (ev.state = "passed") = FilterClaim(ev.path)
  /\ (config.patterns.watch_patterns = << >> /\
      config.patterns.exclude_patterns = << >>) =>
        \A ev \in handled : ev.state = "passed"

\* with includes ".q" and "a" and exclude "q": x/a.p passes by substring,
\* y/b.p matches no include
C20_Witness ==
  /\ config.patterns.watch_patterns = <<<<".", "q">>, <<"a">>>>
  /\ config.patterns.exclude_patterns = <<<<"q">>>>
  /\ handled = {[path |-> "p1", state |-> "passed"],
                [path |-> "p2", state |-> "filtered"]}

\* C21: every key of the record load_config returns holds the value stored
\* in the file if the file has the key, and else the value a fresh
\* configuration has; loading a file as save_config wrote it gives a record
\* equal to the saved one in every field.
C21_ConfigPersistence ==
  pc = "loaded" =>
    /\ DOMAIN loaded = Keys
    /\ \A k \in Keys :
         loaded[k] = IF k \in DOMAIN cfgFile THEN config[k] ELSE FreshConfig[k]
    /\ DOMAIN cfgFile = Keys => loaded = config

\* a saved configuration that differs from the defaults in six fields, read
\* back whole; and a file without its recurse key
C21_Witness ==
  /\ pc = "loaded"
  /\ \/ /\ DOMAIN cfgFile = Keys
        /\ loaded = config
        /\ config.debounce_ms = PyInt(500) /\ config.poll_interval = PyFloat(5)
        /\ config.recurse = PyBool(FALSE) /\ config.log_file = PyStr("log")
        /\ config.watch_dirs = PyList(<<"d1">>) /\ config.command = PyStr("gen")
     \/ /\ "recurse" \notin DOMAIN cfgFile
        /\ config.recurse = PyBool(FALSE)
        /\ loaded.recurse = PyBool(TRUE)

\* C22: started with --load-config and nothing else, main hands the watcher
\* a configuration that has, for every key of the file, the value stored in
\* the file; so for debounce_ms and poll_interval.
C22_CliRestore ==
  pc = "restored" =>
    \A k \in DOMAIN cfgFile : loaded[k] = config[k]

\* an event that passed the filter and has a command, handled in this step
Dispatchable(ev) ==
  pc = "process" /\ ev.state # "filtered" /\ ev.command # ""

\* C23: an event with a resolved command is dispatched iff no trigger is
\* recorded or the time from the recorded trigger to the check is at least
\* debounce_ms, so always if debounce_ms = 0; a dispatch records the instant
\* of the check as last trigger in the step that starts the command.
C23_DebounceTransition ==
  [][\A ev \in handled' \ handled :
       Dispatchable(ev) =>
         /\ (ev.state = "running") =
              (last_change = 0 \/ Now - last_change >= config.debounce_ms)
         /\ config.debounce_ms = 0 => ev.state = "running"
         /\ ev.state = "running" => (last_change' = Now /\ pc' = "running")
    ]_vars

\* C24: the first event with a command fires, in the step that handles it;
\* an event checked inside the window that the recorded trigger opened is
\* dropped; a dropped event starts no command and leaves the stop flag, the
\* last-trigger time and the record of started commands unchanged.
C24_LeadingEdge ==
  [][\A ev \in handled' \ handled :
       Dispatchable(ev) =>
         /\ lastStart = {} => ev.state = "running"
         /\ (ev.state = "running") = (pc' = "running")
         /\ (lastStart # {} /\ Now < last_change + config.debounce_ms) =>
              ev.state = "debounced"
         /\ ev.state = "debounced" =>
              /\ pc' = "process"
              /\ stop_flag' = stop_flag
              /\ last_change' = last_change
              /\ lastStart' = lastStart
    ]_vars

\* a burst of two events in the first cycle: the first fired and its command
\* ended, the second was dropped, and the trigger time is still the first's
C24_Witness ==
  /\ ~config.oneshot
  /\ pc = "process"
  /\ ~stop_flag
  /\ skew = 0
  /\ last_change = WallEpoch + 1
  /\ \E ev \in handled : ev.state = "debounced"
  /\ \E ev \in handled : ev.state = "ended"

\* C25: whether an event with a command fires is decided by the real time
\* since the last command was started, whatever was done to the wall clock
\* in between: inside debounce_ms it is dropped, outside it fires.
C25_ClockRobustness ==
  [][\A ev \in handled' \ handled :
       Dispatchable(ev) =>
         \A t \in lastStart : (ev.state = "running") = (rt - t >= config.debounce_ms)
    ]_vars

\* a comparison that looks at mtime and size only when both snapshots are
\* of an existing file
SentinelBlindChanged(old_info, new_info) ==
  \/ old_info.exists # new_info.exists
  \/ /\ old_info.exists
     /\ new_info.exists
     /\ (old_info.mtime # new_info.mtime \/ old_info.size # new_info.size)

\* the snapshot with the fields of a sentinel wiped
Blank(info) ==
  IF info.exists THEN info ELSE [info EXCEPT !.mtime = 0, !.size = 0]

\* C26: once a cycle's paths are all handled, a path in both snapshot sets
\* has an event exactly if its two snapshots differ for a comparison that
\* ignores mtime and size of a snapshot with exists = FALSE, and the type of
\* every event is the one its snapshots give with those fields wiped.
C26_SentinelSnapshots ==
  CycleDone =>
    /\ \A p \in DOMAIN file_states \cap DOMAIN current_states :
         (EventsFor(p) # {}) =
           SentinelBlindChanged(file_states[p], current_states[p])
    /\ \A ev \in handled :
         ev.state # "filtered" =>
           ev.type = EventType(Blank(ev.old), Blank(ev.new))

\* a path whose stat failed in two scans running has no event, while the
\* deleted branch handled a sentinel that carries the metadata of a file
C26_Witness ==
  /\ CycleDone
  /\ \E p \in DOMAIN file_states \cap DOMAIN current_states :
       /\ ~file_states[p].exists
       /\ ~current_states[p].exists
       /\ EventsFor(p) = {}
  /\ \E ev \in handled :
       ev.state # "filtered" /\ ~ev.new.exists /\ ev.new.mtime # 0

\* the step that starts a command and the step in which the command ends:
\* the two steps of a dispatch, each making one log() call
DispatchStarts == pc = "process" /\ pc' = "running"
DispatchEnds == pc = "running" /\ pc' = "process"

\* C27: the log call of a dispatch always prints its line and records it in
\* the history; with a log file the line is either appended or the failure
\* is reported on stderr; and whichever it is, the step that starts the
\* command records the trigger and the start, the step that ends it sets
\* the stop flag exactly in oneshot mode, the for loop goes on and the
\* process has not exited.
C27_SinkErrors ==
  [][(DispatchStarts \/ DispatchEnds) =>
       /\ logOut'.console
       /\ logOut'.history
       /\ logOut'.stderr = ~logOut'.file
       /\ DispatchStarts =>
            /\ logOut'.line = "running"
            /\ last_change' = Now
            /\ lastStart' = {rt}
            /\ stop_flag' = stop_flag
       /\ DispatchEnds =>
            /\ logOut'.line = result'
            /\ stop_flag' = (stop_flag \/ config.oneshot)
            /\ last_change' = last_change
            /\ todo' = todo
            /\ exitCode' = {}
    ]_vars

\* the line of a successful command could not be appended to the log file:
\* reported on stderr, printed, in the history, and the oneshot stop flag set
C27_Witness ==
  /\ pc = "process"
  /\ result = "exit0"
  /\ logOut.stderr
  /\ logOut.console
  /\ logOut.history
  /\ config.oneshot
  /\ stop_flag
  /\ exitCode = {}

\* what happened to path p between the baseline and the scan of this cycle
ChangeKinds(p) ==
  {k \in {"create", "modify", "delete"} :
     \/ k = "create" /\ ~PresentIn(file_states, p) /\ PresentIn(current_states, p)
     \/ k = "delete" /\ PresentIn(file_states, p) /\ ~PresentIn(current_states, p)
     \/ k = "modify" /\ PresentIn(file_states, p) /\ PresentIn(current_states, p)
                     /\ file_states[p] # current_states[p]}

\* C28: in oneshot mode, once the for loop of a cycle is over whose scan
\* showed a filter-passing change with a command configured for it, a
\* command has been started and the stop flag is set, so that the while
\* loop ends after this cycle.
C28_OneshotTermination ==
  ( /\ config.oneshot
    /\ CycleDone
    /\ \E p \in Paths :
         Passes(p) /\ \E k \in ChangeKinds(p) : ExpectedCommand(k) # "" ) =>
      (lastStart # {} /\ stop_flag)

\* the path is not in the cycle at all, or its two snapshots are the same
SameAsBaseline(p) ==
  \/ p \notin DOMAIN file_states \cup DOMAIN current_states
  \/ /\ p \in DOMAIN file_states \cap DOMAIN current_states
     /\ file_states[p] = current_states[p]

\* C29: the replacement at the end of a cycle installs the candidate set
\* also when an event of the cycle was dropped by the debounce check; and
\* in every cycle a path whose snapshot is that of the baseline has no event,
\* so none with a command either.  Together: after a drop the path has no
\* event until its snapshot differs from the one the dropped event saw.
C29_NoRedelivery ==
  [][/\ ( /\ pc = "process"
          /\ pc' = "loop"
          /\ \E ev \in handled : ev.state = "debounced" ) =>
            file_states' = current_states
     /\ CycleDone' =>
          \A p \in Paths : SameAsBaseline(p)' => EventsFor(p)' = {}
    ]_vars

\* the for loop of a cycle is over in which one event started a command
\* and the event of a changed file was dropped; the loop goes on, and the
\* replacement that comes next makes the dropped change the baseline
C29_Witness ==
  /\ CycleDone
  /\ ~stop_flag
  /\ \E ev \in handled : ev.state = "ended"
  /\ \E ev \in handled :
       /\ ev.state = "debounced"
       /\ ev.path \in DOMAIN file_states \cap DOMAIN current_states
       /\ file_states[ev.path] # current_states[ev.path]
       /\ current_states[ev.path].exists

\* presence, modification time or size of p at the scan of this cycle is
\* not what the baseline has
Differs(p) ==
  \/ (p \in DOMAIN file_states) # (p \in DOMAIN current_states)
  \/ /\ p \in DOMAIN file_states \cap DOMAIN current_states
     /\ \/ file_states[p].exists # current_states[p].exists
        \/ file_states[p].mtime # current_states[p].mtime
        \/ file_states[p].size # current_states[p].size

\* C30: while a command runs the baseline and the candidate set stay as the
\* scans left them, and when the for loop of a cycle is over every path that
\* differs from the baseline has had its one event handled; the baseline of
\* the cycle after a command is the scan taken before that command.
C30_ChangeDuringCommand ==
  [][/\ pc = "running" =>
          (file_states' = file_states /\ current_states' = current_states)
     /\ CycleDone' =>
          \A p \in Paths : Differs(p)' => Cardinality(EventsFor(p)') = 1
    ]_vars

\* the second cycle is over; a command ran in the first, at time 1, and a
\* file that has another mtime or size than the scan before that command
\* saw has its event
C30_Witness ==
  /\ CycleDone
  /\ cycles = 2
  /\ lastStart = {1}
  /\ ~config.oneshot
  /\ \E p \in DOMAIN file_states \cap DOMAIN current_states :
       /\ file_states[p].exists
       /\ current_states[p].exists
       /\ file_states[p] # current_states[p]
       /\ \E ev \in EventsFor(p) :
            ev.old = file_states[p] /\ ev.new = current_states[p]

====
